---- MODULE Spec2Model ----
(***************************************************************************)
(* remotebuild: one run of the pipeline of src/main.rs                     *)
(*   connect -> mkdir -> (manifest) -> push -> build -> pull* -> done      *)
(* together with the ssh master session that runs in the background and    *)
(* the collaborators the run talks to (ssh, rsync, git, the file system).  *)
(***************************************************************************)
EXTENDS Integers, Sequences, FiniteSets, TLC

VARIABLES
    config,           \* struct Config, immutable for the run
    force_full_sync,  \* Args::force_full_sync
    cache_dir,        \* what dirs::cache_dir() returns in this environment
    sock,             \* the control socket at ssh_control_path: absent / stale / live
    master,           \* the background `ssh -N -M` process: none / starting / ready / failed
    handshakes,       \* authentication handshakes made with the host in this run
    pc,               \* position of the main flow
    idx,              \* index of the next artifact in sync_artifacts' loop
    ops,              \* every external command issued so far, in order, with its outcome
    git,              \* what get_git_files saw: the two query results
    temp_file,        \* the manifest temp file: None or its content
    temp_created,     \* whether fs::write ever created the manifest temp file
    warnings,         \* artifacts the warning of line 456 was printed for
    result,           \* running / Success / Failure
    stage,            \* the stage a Failure happened in
    args_output,      \* Args::output, the CLI override of the output level
    write_failed,     \* whether fs::write of the manifest temp file returned Err
    remote,           \* the files under the remote path on the host
    tty,              \* the terminal: current line, cursor column, what was rendered
    lookup            \* two host identifiers and the control paths computed for them

vars == <<config, force_full_sync, cache_dir, sock, master, handshakes, pc, idx,
          ops, git, temp_file, temp_created, warnings, result, stage,
          args_output, write_failed, remote, tty, lookup>>

\* ---------------------------------------------------------------- bounds
MaxArtifacts == 3
MaxTracked == 1
MaxUntracked == 1
MaxHostLen == 2

\* ---------------------------------------------------------------- values
\* Option<T>: None is the empty sequence, Some(x) the one-element sequence.
None == <<>>

Some(x) == <<x>>

\* Characters that char::is_alphanumeric accepts, among those the model uses.
Alphanumeric == {"a", "b", "c", "1"}

\* Host identifiers of the model: user@host and a dotted host.
Hosts == { <<"a", "@", "b">>, <<"b", ".", "1">> }

\* Remote paths of the model: the shape of the default, "~/remotebuild-cache".
RemotePaths == { <<"~", "/", "c">> }

\* The same, and an absolute path made of shell-safe characters only.
RemotePathsWide == RemotePaths \cup { <<"/", "c">> }

\* Values of the `output` setting in the model, in the file and on the command line.
OutputNames == {"", "minimal", "normal", "N", "Verbose", "v", "loud"}

\* str::to_lowercase on the output names of the model.
to_lowercase(s) ==
    CASE s = "N" -> "n"
      [] s = "Verbose" -> "verbose"
      [] OTHER -> s

\* The rsync --exclude patterns of lines 300-306, in order.
BuiltinExcludes ==
    <<".git", ".gitignore", "*.nds", "*.elf", "build/", ".ninja_*", "compile_commands.json">>

\* Config::exclude_patterns lists of the model.
UserExcludeLists == { <<>>, <<"*.o">>, <<"*.o", "tmp/">> }

\* Files the remote tree may hold before the run: one that matches no exclusion
\* pattern and is not in the project (any more), and one under the excluded build/.
StaleFile == <<"old.c", 0>>

KeptFile == <<"build/", 0>>

\* The project tree as rsync sees it when it is given no file list.
WholeTree == <<"project/", 0>>

Artifact(i) == <<"out", i>>

TrackedFile(i) == <<"tracked", i>>

UntrackedFile(i) == <<"untracked", i>>

\* Outcome of an external command, as std::process::Command reports it:
\*   nostart  the process could not be spawned (Err from spawn/output/status)
\*   ok       exit status 0
\*   fail     the command ran and ended with a non-zero exit status
Outcomes == {"ok", "fail", "nostart"}

\* ExitStatus::success()
Success(o) == o = "ok"

\* ---------------------------------------------------------------- Config
\* Config::artifacts lists of the model: the first n patterns.
ArtifactLists == { [i \in 1..n |-> Artifact(i)] : n \in 0..MaxArtifacts }

Configs ==
    [host : Hosts, remote_path : RemotePaths, build_command : {"make"},
     artifacts : ArtifactLists, exclude_patterns : {<<>>}, git_aware : BOOLEAN,
     output : {""}]

\* A variant of Config::output_level that compares the setting as written.
output_level_case_sensitive(cfg) ==
    IF cfg.output \in {"verbose", "v"} THEN "Verbose"
    ELSE IF cfg.output \in {"normal", "n"} THEN "Normal"
    ELSE "Minimal"

\* Config::output_level
output_level(cfg) ==
    IF to_lowercase(cfg.output) \in {"verbose", "v"} THEN "Verbose"
    ELSE IF to_lowercase(cfg.output) \in {"normal", "n"} THEN "Normal"
    ELSE "Minimal"

\* ---------------------------------------------------------------- control path
\* host.replace(|c| !c.is_alphanumeric() && c != '-' && c != '.', "_")
SafeHost(host) ==
    [i \in 1..Len(host) |->
        IF host[i] \notin Alphanumeric /\ host[i] # "-" /\ host[i] # "." THEN "_" ELSE host[i]]

\* dirs::cache_dir().unwrap_or_else(|| env::temp_dir())
CacheDirOrTemp == IF cache_dir = "unset" THEN "tmp" ELSE cache_dir

\* fn ssh_control_path(host): <cache>/remotebuild/control_<safe_host>
ssh_control_path(host) ==
    <<CacheDirOrTemp, "remotebuild", <<"control_">> \o SafeHost(host)>>

\* An argument of a command line: its literal text and the value formatted into it.
Arg(text) == <<text, <<>> >>

ArgOf(text, val) == <<text, val>>

\* fn add_ssh_control_args: .arg("-o").arg(format!("ControlPath={}", control_path))
add_ssh_control_args(cfg) ==
    <<Arg("-o"), ArgOf("ControlPath=", ssh_control_path(cfg.host))>>

\* A variant that formats the host itself into the rsync transport instead of the path.
ssh_control_path_arg_raw_host(cfg) ==
    ArgOf("ssh -o ControlPath=", <<CacheDirOrTemp, "remotebuild", <<"control_">> \o cfg.host>>)

\* fn ssh_control_path_arg: format!("ssh -o ControlPath={}", ssh_control_path(host))
ssh_control_path_arg(cfg) ==
    ArgOf("ssh -o ControlPath=", ssh_control_path(cfg.host))

\* ---------------------------------------------------------------- commands
\* A command line is [prog, args]; args is a sequence of arguments.
Cmd(prog, args) == [prog |-> prog, args |-> args]

\* The liveness probe of ensure_ssh_connection.
ProbeCommand(cfg) ==
    Cmd("ssh", <<Arg("-o"), Arg("ControlMaster=no"),
                 Arg("-o"), ArgOf("ControlPath=", ssh_control_path(cfg.host)),
                 Arg("-o"), Arg("ConnectTimeout=2"), ArgOf("", cfg.host), Arg("true")>>)

\* The background master session of ensure_ssh_connection.
MasterCommand(cfg) ==
    Cmd("ssh", <<Arg("-N"), Arg("-M"), Arg("-o"), Arg("ControlMaster=auto"),
                 Arg("-o"), Arg("ControlPersist=10m"),
                 Arg("-o"), ArgOf("ControlPath=", ssh_control_path(cfg.host)),
                 ArgOf("", cfg.host)>>)

\* fn ssh_command(config) followed by .arg(cmd)
ssh_command(cfg, cmd) ==
    Cmd("ssh", add_ssh_control_args(cfg) \o <<ArgOf("", cfg.host), cmd>>)

\* shell_escape::escape: a string of safe characters is left alone, any other is
\* wrapped in single quotes ('~' is not among the safe characters).
ShellSafe == Alphanumeric \cup {"-", "_", "=", "/", ",", ".", "+"}

escape(s) ==
    IF \A i \in 1..Len(s) : s[i] \in ShellSafe THEN s ELSE <<"'">> \o s \o <<"'">>

\* format!("mkdir -p {}", escape(remote_full_path))
MkdirCommand(cfg) == ssh_command(cfg, ArgOf("mkdir -p ", escape(cfg.remote_path)))

\* format!("cd {} && {}", config.remote_path, config.build_command)
BuildCommand(cfg) ==
    ssh_command(cfg, ArgOf("cd && ", <<cfg.remote_path, cfg.build_command>>))

\* Lines 287-290 and 438-441: -v at Verbose, --quiet otherwise.
VerbosityArg(cfg) == IF output_level(cfg) = "Verbose" THEN Arg("-v") ELSE Arg("--quiet")

\* A variant that passes the built-in exclusions only.
ExcludeArgsBuiltinOnly(cfg) ==
    [i \in 1..Len(BuiltinExcludes) |-> ArgOf("--exclude=", <<BuiltinExcludes[i]>>)]

\* Lines 299-310: the built-in exclusions, then the configured ones.
ExcludeArgs(cfg) ==
    [i \in 1..Len(BuiltinExcludes) |-> ArgOf("--exclude=", <<BuiltinExcludes[i]>>)]
    \o [i \in 1..Len(cfg.exclude_patterns) |-> ArgOf("--exclude=", <<cfg.exclude_patterns[i]>>)]

\* The rsync command line of sync_to_remote; manifest is None or Some(file list).
PushCommand(cfg, manifest) ==
    Cmd("rsync",
        <<Arg("-avz"), VerbosityArg(cfg), Arg("--delete"), Arg("-e"), ssh_control_path_arg(cfg)>>
        \o ExcludeArgs(cfg)
        \o (IF manifest = None THEN <<>> ELSE <<ArgOf("--files-from=", manifest[1])>>)
        \o <<Arg("project/"), ArgOf(":/", <<cfg.host, cfg.remote_path>>)>>)

\* The rsync command line of one iteration of sync_artifacts.
PullCommand(cfg, artifact) ==
    Cmd("rsync", <<Arg("-avz"), VerbosityArg(cfg), Arg("-e"), ssh_control_path_arg(cfg),
                   ArgOf(":/", <<cfg.host, cfg.remote_path, artifact>>), Arg(".")>>)

\* One entry of the log of external commands.
Op(kind, cmd, outcome) == [kind |-> kind, cmd |-> cmd, outcome |-> outcome]

\* ---------------------------------------------------------------- Init
NotRun == [state |-> "notrun", lines |-> <<>>]

\* The terminal before the program writes: an empty line, the cursor in column 0.
TtyStart == [line |-> <<>>, col |-> 0, events |-> <<>>]

\* No control-path lookup is in progress.
LookupIdle == [a |-> <<>>, b |-> <<>>, pa |-> None, pb |-> None]

\* Characters of host identifiers: one that is kept, and three that are not
\* alphanumeric, '-' or '.'.
HostChars == {"a", "@", ":", "_"}

\* Host identifiers of up to MaxHostLen characters.
HostNames == UNION { [1..n -> HostChars] : n \in 1..MaxHostLen }

\* Two host identifiers whose control paths are still to be computed.
Lookups == [a : HostNames, b : HostNames, pa : {None}, pb : {None}]

\* The state in which main starts a run, for the given sets of inputs.
InitRun(configs, forces, cache_dirs, socks, cli_outputs, remotes, lookups) ==
    /\ config \in configs
    /\ force_full_sync \in forces
    /\ cache_dir \in cache_dirs
    /\ sock \in socks
    /\ master = "none"
    /\ handshakes = 0
    /\ pc = "main"
    /\ idx = 1
    /\ ops = <<>>
    /\ git = [tracked |-> NotRun, untracked |-> NotRun]
    /\ temp_file = None
    /\ temp_created = FALSE
    /\ warnings = <<>>
    /\ result = "running"
    /\ stage = "none"
    /\ args_output \in cli_outputs
    /\ write_failed = FALSE
    /\ remote \in remotes
    /\ tty = TtyStart
    /\ lookup \in lookups

Init ==
    InitRun(Configs, BOOLEAN, {"cache"}, {"absent", "stale", "live"}, {None}, {{}},
            {LookupIdle})

\* Runs that differ in the output setting of the file and of the command line.
ConfigsOut ==
    [host : {<<"a", "@", "b">>}, remote_path : RemotePaths, build_command : {"make"},
     artifacts : ArtifactLists, exclude_patterns : {<<>>}, git_aware : {FALSE},
     output : OutputNames]

InitOut ==
    InitRun(ConfigsOut, {FALSE}, {"cache"}, {"absent", "stale"},
            {None} \cup { Some(n) : n \in OutputNames }, {{}}, {LookupIdle})

\* Runs that differ in the remote path, the exclusions, the sync mode and the
\* remote tree they find.
ConfigsTree ==
    [host : {<<"a", "@", "b">>}, remote_path : RemotePathsWide, build_command : {"make"},
     artifacts : {<<Artifact(1)>>}, exclude_patterns : UserExcludeLists,
     git_aware : BOOLEAN, output : {""}]

InitTree ==
    InitRun(ConfigsTree, BOOLEAN, {"cache"}, {"absent", "stale"}, {None},
            SUBSET {StaleFile, KeptFile}, {LookupIdle})

\* No run: the control paths of two host identifiers are computed.
InitHosts ==
    InitRun({ c \in ConfigsTree : c.remote_path \in RemotePaths /\ c.exclude_patterns = <<>>
                                   /\ c.git_aware },
            {FALSE}, {"cache", "unset"}, {"absent"}, {None}, {{}}, Lookups)

\* ---------------------------------------------------------------- terminal
\* Character counts of the status texts, as the string literals of the source
\* spell them.  The banner is counted up to the host.
LenBanner == 19

LenSyncing == 21

LenBuilding == 16

LenCopying == 25

LenComplete == 19

\* Width of the blank field clear_status prints: {: <80}
ClearWidth == 80

\* A blank cell of the terminal line.
Blank == <<" ", 0>>

\* The cells of a text: the k-th character of text `what`.
Cells(what, n) == [k \in 1..n |-> <<what, k>>]

\* Number of characters of a status text; the banner ends with the host.
TextLen(what, cfg) ==
    CASE what = "banner" -> LenBanner + Len(cfg.host)
      [] what = "syncing" -> LenSyncing
      [] what = "building" -> LenBuilding
      [] what = "copying" -> LenCopying
      [] what = "complete" -> LenComplete

Text(what, cfg) == Cells(what, TextLen(what, cfg))

\* The line after `cells` are written from column col on (the terminal overwrites
\* in place and keeps what lies to the right of the written cells).
Overwrite(line, col, cells) ==
    LET before == IF Len(line) >= col THEN SubSeq(line, 1, col)
                  ELSE line \o [k \in 1..(col - Len(line)) |-> Blank]
        after == IF Len(line) > col + Len(cells)
                   THEN SubSeq(line, col + Len(cells) + 1, Len(line))
                   ELSE <<>>
    IN  before \o cells \o after

RECURSIVE Trim(_)
\* A line without its trailing blanks: what is visible of it.
Trim(line) ==
    IF \A i \in DOMAIN line : line[i] = Blank THEN <<>>
    ELSE IF line[Len(line)] = Blank THEN Trim(SubSeq(line, 1, Len(line) - 1))
    ELSE line

\* What is visible of a line to the right of its first n cells.
Residue(line, n) ==
    IF Len(line) > n THEN Trim(SubSeq(line, n + 1, Len(line))) ELSE <<>>

\* One entry of the rendering log.  `left` is the earlier text still visible on the
\* line: beside the text of a status write, or where other output starts.
Event(kind, what, level, left) ==
    [kind |-> kind, what |-> what, level |-> level, left |-> left]

Render(t, line, col, event) ==
    [line |-> line, col |-> col, events |-> Append(t.events, event)]

\* Lines 206-218: the banner; print! without a carriage return at Minimal.
print_banner(t, cfg) ==
    LET level == output_level(cfg) IN
    IF level = "Minimal"
      THEN LET line == Overwrite(t.line, t.col, Text("banner", cfg) \o <<Blank>>)
           IN  Render(t, Trim(line), t.col + TextLen("banner", cfg) + 1,
                      Event("banner", "banner", level, Trim(t.line)))
      ELSE Render(t, <<>>, 0, Event("banner", "banner", level, <<>>))

\* fn print_status: "\r{message} " at Minimal, a line of its own otherwise.
print_status(t, cfg, what) ==
    LET level == output_level(cfg) IN
    IF level = "Minimal"
      THEN LET line == Overwrite(t.line, 0, Text(what, cfg) \o <<Blank>>)
           IN  Render(t, Trim(line), TextLen(what, cfg) + 1,
                      Event("status", what, level, Residue(line, TextLen(what, cfg) + 1)))
      ELSE Render(t, <<>>, 0, Event("status", what, level, <<>>))

\* fn clear_status: at Minimal, "\r", 80 blanks, "\r"; nothing otherwise.
clear_status(t, cfg) ==
    LET level == output_level(cfg) IN
    IF level = "Minimal"
      THEN LET line == Trim(Overwrite(t.line, 0, [k \in 1..ClearWidth |-> Blank]))
           IN  Render(t, line, 0, Event("clear", "clear", level, line))
      ELSE t

\* Output written by somebody else (the remote build, rsync, the warning of line
\* 456): it starts at the cursor and ends with a newline.
foreign_output(t, cfg, what) ==
    Render(t, <<>>, 0, Event("foreign", what, output_level(cfg), t.line))

\* The "done" lines of lines 354-357, 420-424 and 464-467: printed at Normal only.
print_done(t, cfg, what) ==
    IF output_level(cfg) = "Normal"
      THEN Render(t, <<>>, 0, Event("done", what, output_level(cfg), <<>>))
      ELSE t

\* Lines 458-460: "Copied: <artifact>", printed at Verbose only.
print_copied(t, cfg) ==
    IF output_level(cfg) = "Verbose"
      THEN Render(t, <<>>, 0, Event("copied", "copied", output_level(cfg), <<>>))
      ELSE t

\* Lines 229-237: the completion marker; println!("\r...") at Minimal.
print_complete(t, cfg) ==
    LET level == output_level(cfg) IN
    IF level = "Minimal"
      THEN LET line == Overwrite(t.line, 0, Text("complete", cfg))
           IN  Render(t, <<>>, 0,
                      Event("status", "complete", level, Residue(line, LenComplete)))
      ELSE Render(t, <<>>, 0, Event("status", "complete", level, <<>>))

\* What rsync prints with -v: its file list, at Verbose only.
rsync_output(t, cfg, o) ==
    IF output_level(cfg) = "Verbose" /\ o # "nostart"
      THEN foreign_output(t, cfg, "rsync")
      ELSE t

\* ---------------------------------------------------------------- collaborators
\* Authentication handshakes an ssh client (or rsync's ssh transport) is known to
\* have made when it is given only ControlPath (ControlMaster defaults to no): none
\* when it can multiplex over a live master socket; otherwise it connects on its
\* own, and a command that succeeded remotely has authenticated.  (A command that
\* ended non-zero may have authenticated or not; it is not counted.)
Handshake(o) ==
    IF sock = "live" THEN 0 ELSE IF o = "ok" THEN 1 ELSE 0

\* Results of `git ls-files`: not spawned, exit status non-zero, or the tracked paths.
TrackedResults ==
    { [state |-> "nostart", lines |-> <<>>], [state |-> "nonzero", lines |-> <<>>] }
    \cup { [state |-> "ok", lines |-> [i \in 1..n |-> TrackedFile(i)]] : n \in 0..MaxTracked }

\* Results of `git ls-files --others --exclude-standard`.
UntrackedResults ==
    { [state |-> "nostart", lines |-> <<>>], [state |-> "nonzero", lines |-> <<>>] }
    \cup { [state |-> "ok", lines |-> [i \in 1..n |-> UntrackedFile(i)]] : n \in 0..MaxUntracked }

\* ---------------------------------------------------------------- helpers
\* `return Err(..)` / `?` reaching main: the run ends in Failure at stage st.
Fail(st) ==
    /\ pc' = "done"
    /\ result' = "Failure"
    /\ stage' = st

\* Issue an external command and wait for its outcome.
Issue(kind, cmd, o) ==
    /\ ops' = Append(ops, Op(kind, cmd, o))
    /\ handshakes' = handshakes + Handshake(o)

\* main's exit code: Err from run_remote_build makes the process exit non-zero.
ExitCode == IF result = "Success" THEN 0 ELSE 1

\* ---------------------------------------------------------------- main
\* Lines 184-187: the CLI value, when given, replaces config.output.
main_override(cfg, cli) ==
    IF cli = None THEN cfg ELSE [cfg EXCEPT !.output = cli[1]]

\* main, the banner of run_remote_build and the first status of sync_to_remote
\* (lines 166-190, 203-221, 268-271), up to the first external command.
Start ==
    /\ pc = "main"
    /\ config' = main_override(config, args_output)
    /\ tty' = print_status(print_banner(tty, config'), config', "syncing")
    /\ pc' = "connect"
    /\ UNCHANGED <<force_full_sync, cache_dir, sock, master, handshakes, idx, ops, git,
                   temp_file, temp_created, warnings, result, stage, args_output,
                   write_failed, remote, lookup>>

\* ---------------------------------------------------------------- ensure_ssh_connection
\* A variant that never takes the early return of line 99.
ProbeNeverAlive(o) == FALSE

\* Lines 96-102: only an Ok(output) with a successful status returns early.
ProbeAlive(o) == Success(o)

\* Lines 82-102: the control socket exists, so it is probed through ControlPath.
EnsureProbe ==
    /\ pc = "connect"
    /\ sock # "absent"
    /\ \E o \in Outcomes :
        /\ Issue("probe", ProbeCommand(config), o)
        /\ pc' = IF ProbeAlive(o) THEN "mkdir" ELSE "spawn"
    /\ UNCHANGED <<config, force_full_sync, cache_dir, sock, master, idx, git,
                   temp_file, temp_created, warnings, result, stage, args_output,
                   write_failed, remote, tty, lookup>>

\* Lines 104-121: spawn the background master, sleep 100 ms, return Ok; a spawn
\* error is returned with `?`.
EnsureSpawn ==
    /\ \/ pc = "spawn"
       \/ pc = "connect" /\ sock = "absent"
    /\ \E started \in BOOLEAN :
        /\ ops' = Append(ops, Op("master", MasterCommand(config),
                                 IF started THEN "spawned" ELSE "nostart"))
        /\ IF started
             THEN /\ master' = "starting"
                  /\ pc' = "mkdir"
                  /\ UNCHANGED <<result, stage>>
             ELSE /\ Fail("connect")
                  /\ UNCHANGED master
    /\ UNCHANGED <<config, force_full_sync, cache_dir, sock, handshakes, idx, git,
                   temp_file, temp_created, warnings, args_output, write_failed, remote,
                   tty, lookup>>

\* The background session authenticates and starts listening on the control path.
\* It runs concurrently with the main flow, which only slept 100 ms.  A socket
\* file left by an earlier session may keep it from binding the path.
MasterUp ==
    /\ master = "starting"
    /\ master' = "ready"
    /\ handshakes' = handshakes + 1
    /\ sock' \in (IF sock = "absent" THEN {"live"} ELSE {sock, "live"})
    /\ UNCHANGED <<config, force_full_sync, cache_dir, pc, idx, ops, git,
                   temp_file, temp_created, warnings, result, stage, args_output,
                   write_failed, remote, tty, lookup>>

\* The background session gives up before authenticating (host unreachable).
MasterFail ==
    /\ master = "starting"
    /\ master' = "failed"
    /\ UNCHANGED <<config, force_full_sync, cache_dir, sock, handshakes, pc, idx, ops,
                   git, temp_file, temp_created, warnings, result, stage, args_output,
                   write_failed, remote, tty, lookup>>

\* ---------------------------------------------------------------- sync_to_remote
\* fn run_ssh_command: Err when the command cannot run or ends non-zero.
run_ssh_command_ok(o) == Success(o)

\* Lines 276-281: create the remote directory.
Mkdir ==
    /\ pc = "mkdir"
    /\ \E o \in Outcomes :
        /\ Issue("mkdir", MkdirCommand(config), o)
        /\ IF run_ssh_command_ok(o)
             THEN pc' = "manifest" /\ UNCHANGED <<result, stage>>
             ELSE Fail("mkdir")
    /\ UNCHANGED <<config, force_full_sync, cache_dir, sock, master, idx, git,
                   temp_file, temp_created, warnings, args_output, write_failed, remote,
                   tty, lookup>>

\* Err(..) of get_git_files
GitErr == [ok |-> FALSE, files |-> <<>>]

GitOk(files) == [ok |-> TRUE, files |-> files]

\* A variant that ignores an untracked-paths query that could not be run.
get_git_files_lenient(t, u) ==
    IF t.state = "nostart" THEN GitErr
    ELSE IF t.state = "nonzero" THEN GitOk(<<>>)
    ELSE IF u.state = "ok" THEN GitOk(t.lines \o SelectSeq(u.lines, LAMBDA f : f # <<>>))
    ELSE GitOk(t.lines)

\* fn get_git_files, given the results t and u of the two queries.
get_git_files(t, u) ==
    IF t.state = "nostart" THEN GitErr
    ELSE IF t.state = "nonzero" THEN GitOk(<<>>)
    ELSE IF u.state = "nostart" THEN GitErr
    ELSE IF u.state = "ok" THEN GitOk(t.lines \o SelectSeq(u.lines, LAMBDA f : f # <<>>))
    ELSE GitOk(t.lines)

\* A variant of the condition of line 313 that forgets the CLI flag.
IncrementalIgnoringForce(cfg, force) == cfg.git_aware

\* Line 313: config.git_aware && !force_full_sync
Incremental(cfg, force) == cfg.git_aware /\ ~force

\* Lines 312-334: decide the manifest and write it to the temp file; an error of
\* fs::write is returned with `?` (line 321).
PrepareManifest ==
    /\ pc = "manifest"
    /\ IF Incremental(config, force_full_sync)
         THEN \E t \in TrackedResults :
              \E u \in (IF t.state = "ok" THEN UntrackedResults ELSE {NotRun}) :
                /\ git' = [tracked |-> t, untracked |-> u]
                /\ LET r == get_git_files(t, u) IN
                   IF r.ok /\ r.files # <<>>
                     THEN \E written \in BOOLEAN :
                            IF written
                              THEN /\ temp_file' = Some(r.files)
                                   /\ temp_created' = TRUE
                                   /\ pc' = "push"
                                   /\ UNCHANGED <<result, stage, write_failed>>
                              ELSE /\ Fail("sync-push")
                                   /\ write_failed' = TRUE
                                   /\ UNCHANGED <<temp_file, temp_created>>
                     ELSE /\ pc' = "push"
                          /\ UNCHANGED <<temp_file, temp_created, result, stage, write_failed>>
         ELSE /\ pc' = "push"
              /\ UNCHANGED <<git, temp_file, temp_created, result, stage, write_failed>>
    /\ UNCHANGED <<config, force_full_sync, cache_dir, sock, master, handshakes, idx,
                   ops, warnings, args_output, remote, tty, lookup>>

\* The --exclude patterns of an rsync command line.
ExcludesOf(cmd) ==
    { cmd.args[i][2][1] : i \in { j \in DOMAIN cmd.args : cmd.args[j][1] = "--exclude=" } }

\* Whether a file matches one of the patterns (a pattern stands for the names it
\* matches: file <<name, i>> matches the pattern `name`).
IsExcluded(f, patterns) == f[1] \in patterns

\* The remote tree after rsync has run the push to its end.  Without a file list
\* the whole tree is sent and -a recurses, so --delete removes what is not in the
\* source, except what an exclusion protects.  With --files-from, -a does not
\* imply -r and the list names files, no directory whose content is sent as a
\* whole: the listed files are sent and nothing is deleted.
rsync_push(cmd, tree) ==
    LET patterns == ExcludesOf(cmd)
        lists == { cmd.args[i][2] :
                     i \in { j \in DOMAIN cmd.args : cmd.args[j][1] = "--files-from=" } }
        sent == IF lists = {} THEN {WholeTree}
                ELSE UNION { { l[k] : k \in DOMAIN l } : l \in lists }
        kept == IF lists = {} /\ (\E j \in DOMAIN cmd.args : cmd.args[j][1] = "--delete")
                  THEN { f \in tree : IsExcluded(f, patterns) }
                  ELSE tree
    IN  kept \cup { f \in sent : ~IsExcluded(f, patterns) }

\* The remote trees a push can leave: untouched when rsync did not start, mirrored
\* when it succeeded, either when it ended non-zero.
rsync_push_outcomes(cmd, tree, o) ==
    IF o = "nostart" THEN {tree}
    ELSE IF o = "ok" THEN {rsync_push(cmd, tree)}
    ELSE {tree, rsync_push(cmd, tree)}

\* Lines 341-342: `.status().context(..)?` returns before the cleanup of 345-347.
PushReturnsEarly(o) == o = "nostart"

\* A variant of lines 349-351 that goes on to the build whatever rsync's status.
PushSucceededAlways(o) == TRUE

\* Lines 349-351: a non-zero rsync status is an error.
PushSucceeded(o) == Success(o)

\* Lines 336-359: run rsync, remove the temp file, check the status, print the
\* "done" line.  A transfer that ends non-zero may have been applied or not.
Push ==
    /\ pc = "push"
    /\ \E o \in Outcomes :
        /\ Issue("push", PushCommand(config, temp_file), o)
        /\ remote' \in rsync_push_outcomes(PushCommand(config, temp_file), remote, o)
        /\ IF PushReturnsEarly(o)
             THEN /\ Fail("sync-push")
                  /\ UNCHANGED <<temp_file, tty>>
             ELSE /\ temp_file' = None
                  /\ IF PushSucceeded(o)
                       THEN /\ pc' = "build"
                            /\ tty' = print_done(rsync_output(tty, config, o), config, "syncing")
                            /\ UNCHANGED <<result, stage>>
                       ELSE /\ Fail("sync-push")
                            /\ tty' = rsync_output(tty, config, o)
    /\ UNCHANGED <<config, force_full_sync, cache_dir, sock, master, idx, git,
                   temp_created, warnings, args_output, write_failed, lookup>>

\* ---------------------------------------------------------------- run_remote_build_command
\* Lines 397-414: clear, "Building...", clear again unless Verbose, then the remote
\* command with its output on the terminal.
build_rendering(t, cfg, o) ==
    LET announced == print_status(clear_status(t, cfg), cfg, "building")
        cleared == IF output_level(cfg) = "Verbose" THEN announced
                   ELSE clear_status(announced, cfg)
    IN  IF o = "nostart" THEN cleared ELSE foreign_output(cleared, cfg, "build")

\* fn run_remote_build_command, and on success the first status of sync_artifacts
\* (line 432), which run_remote_build calls next.
Build ==
    /\ pc = "build"
    /\ \E o \in Outcomes :
        /\ Issue("build", BuildCommand(config), o)
        /\ IF Success(o)
             THEN /\ pc' = "pull"
                  /\ tty' = print_status(print_done(build_rendering(tty, config, o),
                                                     config, "building"),
                                          config, "copying")
                  /\ UNCHANGED <<result, stage>>
             ELSE /\ Fail("remote-build")
                  /\ tty' = build_rendering(tty, config, o)
    /\ UNCHANGED <<config, force_full_sync, cache_dir, sock, master, idx, git,
                   temp_file, temp_created, warnings, args_output, write_failed, remote,
                   lookup>>

\* ---------------------------------------------------------------- sync_artifacts
\* A variant in which any unsuccessful transfer ends the loop with an error.
PullAbortsOnAnyFailure(o) == ~Success(o)

\* Lines 451-452: `.status().context(..)?` returns the error of a failed spawn.
PullAborts(o) == o = "nostart"

\* Lines 434-462: one iteration of the loop over config.artifacts.
Pull ==
    /\ pc = "pull"
    /\ idx <= Len(config.artifacts)
    /\ \E o \in Outcomes :
        /\ Issue("pull", PullCommand(config, config.artifacts[idx]), o)
        /\ IF PullAborts(o)
             THEN Fail("sync-pull") /\ UNCHANGED <<idx, warnings, tty>>
             ELSE /\ idx' = idx + 1
                  /\ warnings' = IF Success(o) THEN warnings
                                 ELSE Append(warnings, config.artifacts[idx])
                  /\ tty' = IF Success(o)
                              THEN print_copied(rsync_output(tty, config, o), config)
                              ELSE foreign_output(rsync_output(tty, config, o), config, "warning")
                  /\ UNCHANGED <<pc, result, stage>>
    /\ UNCHANGED <<config, force_full_sync, cache_dir, sock, master, git,
                   temp_file, temp_created, args_output, write_failed, remote, lookup>>

\* Lines 464-469 and 229-239: the loop is over, the completion marker is printed.
Finish ==
    /\ pc = "pull"
    /\ idx > Len(config.artifacts)
    /\ pc' = "done"
    /\ result' = "Success"
    /\ tty' = print_complete(print_done(tty, config, "copying"), config)
    /\ UNCHANGED <<config, force_full_sync, cache_dir, sock, master, handshakes, idx,
                   ops, git, temp_file, temp_created, warnings, stage, args_output,
                   write_failed, remote, lookup>>

\* ---------------------------------------------------------------- control-path lookups
\* fn ssh_control_path applied to the first host identifier.
LookupA ==
    /\ lookup.pa = None
    /\ lookup' = [lookup EXCEPT !.pa = Some(ssh_control_path(lookup.a))]
    /\ UNCHANGED <<config, force_full_sync, cache_dir, sock, master, handshakes, pc, idx,
                   ops, git, temp_file, temp_created, warnings, result, stage,
                   args_output, write_failed, remote, tty>>

\* fn ssh_control_path applied to the second host identifier.
LookupB ==
    /\ lookup.pb = None
    /\ lookup' = [lookup EXCEPT !.pb = Some(ssh_control_path(lookup.b))]
    /\ UNCHANGED <<config, force_full_sync, cache_dir, sock, master, handshakes, pc, idx,
                   ops, git, temp_file, temp_created, warnings, result, stage,
                   args_output, write_failed, remote, tty>>

\* ---------------------------------------------------------------- specification
Next ==
    \/ Start
    \/ EnsureProbe
    \/ EnsureSpawn
    \/ MasterUp
    \/ MasterFail
    \/ Mkdir
    \/ PrepareManifest
    \/ Push
    \/ Build
    \/ Pull
    \/ Finish

Spec == Init /\ [][Next]_vars

SpecOut == InitOut /\ [][Next]_vars

SpecTree == InitTree /\ [][Next]_vars

NextHosts ==
    \/ LookupA
    \/ LookupB

SpecHosts == InitHosts /\ [][NextHosts]_vars

\* ---------------------------------------------------------------- reading the log
\* The control-socket paths a command line refers to: ssh's own -o ControlPath=
\* option, or the one inside rsync's -e transport command.
ControlPaths(cmd) ==
    { cmd.args[i][2] :
        i \in { j \in DOMAIN cmd.args : cmd.args[j][1] \in {"ControlPath=", "ssh -o ControlPath="} } }

\* Positions of the log that hold a command of the given kind.
OpsOf(kind) == { i \in DOMAIN ops : ops[i].kind = kind }

\* The file lists (--files-from) a command line carries.
FilesFrom(cmd) ==
    { cmd.args[i][2] : i \in { j \in DOMAIN cmd.args : cmd.args[j][1] = "--files-from=" } }

\* The pulls issued so far, in order.
Pulls == SelectSeq(ops, LAMBDA op : op.kind = "pull")

\* Position of a kind of command in the pipeline.
Rank(kind) ==
    CASE kind = "probe" -> 1
      [] kind = "master" -> 2
      [] kind = "mkdir" -> 3
      [] kind = "push" -> 4
      [] kind = "build" -> 5
      [] kind = "pull" -> 6

\* ---------------------------------------------------------------- C1
\* C1: every transport operation issued in the run (probe, master session, mkdir,
\* push, build, each pull) refers to exactly one control path, the same for all of
\* them, and it is the path derived from the host.
C1_SingleSession ==
    /\ \A i \in DOMAIN ops : ControlPaths(ops[i].cmd) = {ssh_control_path(config.host)}
    /\ \A i \in DOMAIN ops : ControlPaths(ops[i].cmd) = ControlPaths(ops[1].cmd)

\* A run that issued all six kinds of transport operation.
C1_Witness ==
    { ops[i].kind : i \in DOMAIN ops } = {"probe", "master", "mkdir", "push", "build", "pull"}

\* ---------------------------------------------------------------- C2
\* C2: commands are issued in the order connect (probe, master), mkdir, push, build,
\* pull; mkdir needs a finished connect, push a successful mkdir, build a successful
\* push, pull a successful build; a build that does not succeed ends the run in
\* Failure with a non-zero exit code and without any pull.
C2_StageOrder ==
    /\ \A i, j \in DOMAIN ops :
         i < j => \/ Rank(ops[i].kind) < Rank(ops[j].kind)
                  \/ ops[i].kind = "pull" /\ ops[j].kind = "pull"
    /\ \A j \in OpsOf("mkdir") :
         \E i \in 1..(j - 1) : \/ ops[i].kind = "probe" /\ ops[i].outcome = "ok"
                               \/ ops[i].kind = "master" /\ ops[i].outcome = "spawned"
    /\ \A j \in OpsOf("push") : \E i \in 1..(j - 1) : ops[i].kind = "mkdir" /\ ops[i].outcome = "ok"
    /\ \A j \in OpsOf("build") : \E i \in 1..(j - 1) : ops[i].kind = "push" /\ ops[i].outcome = "ok"
    /\ \A j \in OpsOf("pull") : \E i \in 1..(j - 1) : ops[i].kind = "build" /\ ops[i].outcome = "ok"
    /\ \A j \in OpsOf("build") :
         ops[j].outcome # "ok" =>
            /\ pc = "done" /\ result = "Failure" /\ stage = "remote-build"
            /\ ExitCode # 0
            /\ OpsOf("pull") = {}

\* The remote build ran and exited non-zero, with artifacts configured.
C2_Witness ==
    /\ \E j \in OpsOf("build") : ops[j].outcome = "fail"
    /\ Len(config.artifacts) > 0
    /\ pc = "done"

C4_PullNeverFatal ==
    (pc = "done" /\ \E j \in OpsOf("build") : ops[j].outcome = "ok")
       => (result = "Success" /\ ExitCode = 0)

\* ---------------------------------------------------------------- C5
\* C5: with git_aware = false or force_full_sync = true the manifest temp file is
\* never created, no push carries a file list, and git is not even queried.
C5_FullSyncNoManifest ==
    (~config.git_aware \/ force_full_sync) =>
        /\ temp_file = None
        /\ ~temp_created
        /\ git = [tracked |-> NotRun, untracked |-> NotRun]
        /\ \A j \in OpsOf("push") : FilesFrom(ops[j].cmd) = {}

\* A git-aware configuration run with --force-full-sync has pushed.
C5_Witness ==
    /\ config.git_aware /\ force_full_sync
    /\ \E j \in OpsOf("push") : ops[j].outcome = "ok"

\* ---------------------------------------------------------------- C6
\* The version-control query failed: the tracked-paths query could not be run or
\* exited non-zero, or the untracked-paths query could not be run.
QueryFailed ==
    \/ git.tracked.state \in {"nostart", "nonzero"}
    \/ git.untracked.state = "nostart"

\* C6: after a failed version-control query no manifest is written, the run is at
\* the push or has issued it, without a file list, and it did not fail before it.
C6_QueryFailureFallsBack ==
    QueryFailed =>
        /\ temp_file = None
        /\ ~temp_created
        /\ \/ pc = "push" /\ result = "running"
           \/ OpsOf("push") # {}
        /\ \A j \in OpsOf("push") : FilesFrom(ops[j].cmd) = {}

\* The untracked-paths query could not be run although paths are tracked; pushed.
C6_Witness ==
    /\ git.tracked.state = "ok" /\ git.tracked.lines # <<>>
    /\ git.untracked.state = "nostart"
    /\ \E j \in OpsOf("push") : ops[j].outcome = "ok"

\* ---------------------------------------------------------------- C7
\* C7: once the push stage is over, a manifest temp file that was created is gone.
C7_TempFileRemoved ==
    (temp_created /\ pc \notin {"manifest", "push"}) => temp_file = None

\* ---------------------------------------------------------------- C8
\* C8: ensure_ssh_connection never fails the run: once the background session has
\* been initiated, whatever came of it, the run is at or past the directory creation.
C8_PrewarmAdvisory ==
    /\ ~(result = "Failure" /\ stage = "connect")
    /\ OpsOf("master") # {} => (pc = "mkdir" \/ OpsOf("mkdir") # {})

\* ---------------------------------------------------------------- C9
\* C9: at most one background master session is started in a run; none is started
\* when the probe through the existing control socket succeeded; one is started
\* only when no probe was made (socket absent) or the probe did not succeed.
C9_SessionReuse ==
    /\ Cardinality(OpsOf("master")) <= 1
    /\ Cardinality(OpsOf("probe")) <= 1
    /\ (\E i \in OpsOf("probe") : ops[i].outcome = "ok") => OpsOf("master") = {}
    /\ \A j \in OpsOf("master") : \A i \in OpsOf("probe") : i < j /\ ops[i].outcome # "ok"
    /\ (pc \notin {"main", "connect", "spawn"} /\ OpsOf("master") = {}) =>
            \E i \in OpsOf("probe") : ops[i].outcome = "ok"

\* The existing session answered the probe and the run went on without a new one.
C9_Witness ==
    /\ \E i \in OpsOf("probe") : ops[i].outcome = "ok"
    /\ OpsOf("master") = {}
    /\ \E j \in OpsOf("build") : ops[j].outcome = "ok"

\* ---------------------------------------------------------------- C10
\* C10: the run makes at most one authentication handshake with the host.
C10_OneHandshake == handshakes <= 1

\* ---------------------------------------------------------------- C11
\* C11: the output tier is selected once, before the first stage: the CLI value,
\* when given, replaces the value of the file, and the setting does not change
\* afterwards; every piece of status output and every rsync command of the run
\* follows the tier that setting names ("verbose"/"v", "normal"/"n" in any case),
\* and a setting that names no tier gives what "minimal" gives: Minimal rendering,
\* quiet rsync, no "done" and no "Copied" lines.
C11_TierSelectedOnce ==
    /\ [][pc = "main" =>
            config'.output = IF args_output = None THEN config.output ELSE args_output[1]]_vars
    /\ [][pc # "main" => config'.output = config.output]_vars
    /\ [](pc # "main" =>
            LET tier == IF config.output \in {"Verbose", "v"} THEN "Verbose"
                        ELSE IF config.output \in {"normal", "N"} THEN "Normal"
                        ELSE "Minimal"
            IN  /\ \A i \in DOMAIN tty.events :
                      /\ tty.events[i].level = tier
                      /\ tty.events[i].kind = "done" => tier = "Normal"
                      /\ tty.events[i].kind = "copied" => tier = "Verbose"
                /\ \A i \in OpsOf("push") \cup OpsOf("pull") :
                      \E j \in DOMAIN ops[i].cmd.args :
                          ops[i].cmd.args[j][1] = (IF tier = "Verbose" THEN "-v" ELSE "--quiet"))

\* A run whose file names a tier and whose command line gives a value that names
\* none has ended with the Minimal completion marker after a pull.
C11_Witness ==
    /\ args_output = Some("loud")
    /\ result = "Success"
    /\ OpsOf("pull") # {}
    /\ tty.events[Len(tty.events)].what = "complete"
    /\ tty.events[Len(tty.events)].level = "Minimal"

\* ---------------------------------------------------------------- C12
\* C12: after a successful push the remote tree is the pushed source minus the
\* exclusions: apart from the files an exclusion pattern protects, it holds exactly
\* what the push sent (the whole project, or the files of the manifest), and so no
\* stale file that the source does not have.
C12_Mirroring ==
    \A i \in OpsOf("push") :
        ops[i].outcome = "ok" =>
            LET patterns == { BuiltinExcludes[k] : k \in DOMAIN BuiltinExcludes }
                            \cup { config.exclude_patterns[k] : k \in DOMAIN config.exclude_patterns }
                sent == IF FilesFrom(ops[i].cmd) = {} THEN {WholeTree}
                        ELSE UNION { { l[k] : k \in DOMAIN l } : l \in FilesFrom(ops[i].cmd) }
            IN  { f \in remote : ~IsExcluded(f, patterns) } = sent

\* ---------------------------------------------------------------- C13
\* C13: when the tracked-paths query succeeded and listed no path, no manifest is
\* made, whatever the untracked paths: no temp file is written and no push carries
\* a file list.
C13_ZeroTrackedNoManifest ==
    (git.tracked.state = "ok" /\ git.tracked.lines = <<>>) =>
        /\ temp_file = None
        /\ ~temp_created
        /\ \A i \in OpsOf("push") : FilesFrom(ops[i].cmd) = {}

\* ---------------------------------------------------------------- C14
\* C14: at the Minimal tier, output that is not a status write (the remote build's
\* output, the warning about an artifact) always starts on a blanked line: nothing
\* of an earlier text is visible where it starts, and what was written just before
\* it is the blanking or other such output, never a status text.
C14_BlankBeforeForeign ==
    \A i \in DOMAIN tty.events :
        (tty.events[i].kind = "foreign" /\ tty.events[i].level = "Minimal") =>
            /\ tty.events[i].left = <<>>
            /\ i > 1
            /\ tty.events[i - 1].kind \in {"clear", "foreign"}

\* ---------------------------------------------------------------- C15
\* C15: at the Minimal tier, after a phase status or the completion marker has been
\* written the terminal line shows that text only: nothing of an earlier, longer
\* text is left visible beside it.
C15_StatusReplacesLine ==
    \A i \in DOMAIN tty.events :
        (tty.events[i].kind = "status" /\ tty.events[i].level = "Minimal") =>
            tty.events[i].left = <<>>

\* ---------------------------------------------------------------- C16
\* C16: every push, with or without a file list, carries --delete and the whole
\* exclusion set: the --exclude arguments of its command line are the built-in
\* patterns followed by the configured patterns, each once and in that order.
C16_FullExclusionSet ==
    \A i \in OpsOf("push") :
        LET patterns == BuiltinExcludes \o config.exclude_patterns
            given == SelectSeq(ops[i].cmd.args, LAMBDA a : a[1] = "--exclude=")
        IN  /\ Len(given) = Len(patterns)
            /\ \A k \in DOMAIN given : given[k][2] = <<patterns[k]>>
            /\ \E j \in DOMAIN ops[i].cmd.args : ops[i].cmd.args[j][1] = "--delete"

\* A push with a file list was issued for a configuration with two patterns of
\* its own.
C16_Witness ==
    /\ Len(config.exclude_patterns) = 2
    /\ \E i \in OpsOf("push") : FilesFrom(ops[i].cmd) # {} /\ ops[i].outcome = "ok"

\* ---------------------------------------------------------------- C17
\* C17: the control path is a function of the host identifier that is stable and
\* free of collisions: computed for two host identifiers, the two paths are equal
\* exactly when the identifiers are.
C17_CollisionFree ==
    (lookup.pa # None /\ lookup.pb # None) =>
        (lookup.a = lookup.b <=> lookup.pa = lookup.pb)

\* ---------------------------------------------------------------- C18
\* C18: a successful run at the Verbose tier renders the structure a run at the
\* Normal tier renders: the banner, then for the sync, build and pull phases the
\* phase header followed by the phase's "done" marker, then the completion marker
\* (passthrough output and "Copied" lines aside).
C18_VerboseStructure ==
    (result = "Success" /\ tty.events[1].level \in {"Normal", "Verbose"}) =>
        LET structure == SelectSeq(tty.events,
                                   LAMBDA e : e.kind \in {"banner", "status", "done"})
        IN  [k \in DOMAIN structure |-> <<structure[k].kind, structure[k].what>>]
            = << <<"banner", "banner">>,
                 <<"status", "syncing">>, <<"done", "syncing">>,
                 <<"status", "building">>, <<"done", "building">>,
                 <<"status", "copying">>, <<"done", "copying">>,
                 <<"status", "complete">> >>

\* ---------------------------------------------------------------- C19
\* C19: when writing the manifest file failed, the run goes on as without a
\* manifest: it is about to push or has pushed, without a file list, and it has
\* not ended in Failure before the push.
C19_WriteFailureFallsBack ==
    write_failed =>
        /\ pc = "push" \/ OpsOf("push") # {}
        /\ \A i \in OpsOf("push") : FilesFrom(ops[i].cmd) = {}
        /\ temp_file = None

\* ---------------------------------------------------------------- C20
\* The words of a command line that name the remote directory: the operand of
\* mkdir -p, the operand of cd, the path after "host:" of an rsync operand.
RemoteWords(cmd) ==
    { cmd.args[i][2] : i \in { j \in DOMAIN cmd.args : cmd.args[j][1] = "mkdir -p " } }
    \cup { cmd.args[i][2][1] : i \in { j \in DOMAIN cmd.args : cmd.args[j][1] = "cd && " } }
    \cup { cmd.args[i][2][2] : i \in { j \in DOMAIN cmd.args : cmd.args[j][1] = ":/" } }

\* The directory such a word names on the remote host, where commands start in the
\* login directory: a word in single quotes is taken as it is written, an unquoted
\* leading "~" is replaced by the login directory, and a path that does not start
\* with "/" is relative to the login directory.
RemoteDir(word) ==
    LET literal == IF word[1] = "'" THEN SubSeq(word, 2, Len(word) - 1) ELSE word
    IN  IF word[1] = "~" /\ Len(word) > 1 /\ word[2] = "/" THEN <<"$HOME">> \o Tail(word)
        ELSE IF literal[1] = "/" THEN literal
        ELSE <<"$HOME", "/">> \o literal

\* C20: the directory the mkdir command creates is the directory every later
\* command of the run uses: the one the push writes to, the one the build command
\* changes into, the one each pull reads from.
C20_SameDirectory ==
    \A i \in OpsOf("mkdir") :
        \A j \in OpsOf("push") \cup OpsOf("build") \cup OpsOf("pull") :
            { RemoteDir(w) : w \in RemoteWords(ops[i].cmd) }
            = { RemoteDir(w) : w \in RemoteWords(ops[j].cmd) }

====
